---- MODULE Spec2Model ----
(***************************************************************************)
(* A model of src/src/fonts.rs: the FontMap cache (queue_font,             *)
(* add_font_path, load_fonts, get_font), the bit-pattern size key          *)
(* ComparableF32, and the MaybeFontMap handle (unwrap, resolve) over a     *)
(* FontMap built by a background thread.                                   *)
(*                                                                         *)
(* One FontMap object is modelled.  Under Spec the thread that made it     *)
(* calls its methods; a panic ends that thread.  Under SpecDeferred that   *)
(* thread is a background worker: when it returns, the FontMap sits in the *)
(* JoinHandle until resolve joins it and wraps it in                       *)
(* Ready(Rc<RefCell<FontMap>>); from then on the handle's thread queries   *)
(* it with get_font.  A panic of a call on the handle's thread is recorded *)
(* in `ret`, and that thread may go on afterwards (the default build       *)
(* unwinds, and the handle outlives a caught unwind).                      *)
(*                                                                         *)
(* A draw::Font is modelled by what load_fonts does with it: the parsed    *)
(* font and size it was constructed from, the set `warm` of the texts      *)
(* passed to add_str_to_cache, and `born`, the number of the load_fonts    *)
(* call that constructed it (its identity).                                *)
(***************************************************************************)
EXTENDS Integers, Sequences, FiniteSets, TLC

\* ------------------------------------------------------------------ bounds
\* number of queue_font / load_fonts calls on a FontMap used directly
MaxQueue == 3
MaxLoads == 2
\* number of queue_font / load_fonts calls of a background worker
MaxWorkerQueue == 2
MaxWorkerLoads == 1
\* number of queue_font / load_fonts calls of the application that uses
\* KeySizes
MaxKeyQueue == 2
MaxKeyLoads == 1

\* ------------------------------------------------------------ input sets
Names == {"Sans", "Mono"}
Texts == {"Hello", "World"}

\* An f32 is modelled by its three IEEE-754 fields.
\* 12.0 = 0x41400000, 24.0 = 0x41C00000
F12 == [sign |-> 0, exp |-> 130, mant |-> 4194304]
F24 == [sign |-> 0, exp |-> 131, mant |-> 4194304]
Sizes == {F12, F24}

\* the requirements the application may queue
Requests == {<<"Sans", F12, "Hello">>, <<"Sans", F12, "World">>,
             <<"Sans", F24, "Hello">>, <<"Mono", F12, "Hello">>}

\* Sizes whose bit patterns and numeric values disagree about equality:
\* 11.999999 = 0x413FFFFF, +0.0 = 0x00000000, -0.0 = 0x80000000,
\* a quiet NaN = 0x7FC00000
F12Below == [sign |-> 0, exp |-> 130, mant |-> 4194303]
PosZero == [sign |-> 0, exp |-> 0, mant |-> 0]
NegZero == [sign |-> 1, exp |-> 0, mant |-> 0]
QNaN == [sign |-> 0, exp |-> 255, mant |-> 4194304]
KeySizes == {F12, F12Below, PosZero, NegZero, QNaN}

\* the requirements of an application that uses those sizes
KeyRequests == {<<"Mono", s, "Hello">> : s \in KeySizes}

\* Paths.  SysPath is what the system resolver answers; the others are
\* given to add_font_path.
SysPath == "/usr/share/fonts/sys.ttf"
GoodPath == "/fonts/a.ttf"
GarbagePath == "/fonts/garbage.ttf"
MissingPath == "/fonts/missing.ttf"
UserPaths == {GoodPath, MissingPath}

\* What the file system holds at a path: a font file, a file that is not a
\* font, or nothing.
FileAt(path) ==
    CASE path = GarbagePath -> "garbage"
      [] path = MissingPath -> "missing"
      [] OTHER -> "font"

NoValue == [none |-> TRUE]
NoFont == "fontconfig: not found"

\* ------------------------------------------------------------------ state
VARIABLES
    fonts,          \* FontMap.fonts: (name, size key) -> draw::Font
    font_paths,     \* FontMap.font_paths: name -> path
    required_fonts, \* FontMap.required_fonts: name -> (name, Vec<(size, preload)>)
    worker,         \* the background thread: "running", "done", "panicked"
    returned,       \* the value the thread returned (the JoinHandle's result)
    handle,         \* the MaybeFontMap
    caller,         \* the handle's thread: "idle", or "joining" inside resolve
    op,             \* the last call that ended
    ret,            \* its outcome
    loads,          \* log: name -> paths FontLoader::from_path was called with
    finds,          \* log: name -> number of find_font calls
    queued,         \* log: the (name, size key, preload) triples ever queued
    overrides,      \* log: name -> the last path add_font_path was called with
    joins,          \* log: number of JoinHandle::join calls
    nQueue, nLoads, \* call counters (the bounds' guards)
    dirty,          \* queue_font was called since the last completed load_fonts
    mode            \* "direct": the FontMap is used by the thread that made it;
                    \* "keys": the same, by an application that uses KeySizes;
                    \* "deferred": it is built by a worker behind a MaybeFontMap

vars == <<fonts, font_paths, required_fonts, worker, returned, handle, caller,
          op, ret, loads, finds, queued, overrides, joins, nQueue, nLoads,
          dirty, mode>>

fmVars == <<fonts, font_paths, required_fonts>>
logVars == <<loads, finds, queued, overrides, nQueue, nLoads, dirty>>
handleVars == <<handle, caller, joins, mode>>

\* ----------------------------------------------------------- ComparableF32
\* f32::to_bits, as two 16-bit halves (high, low)
ToBits(f) == <<f.sign * 32768 + f.exp * 128 + (f.mant \div 65536), f.mant % 65536>>

\* Key with a bug: -0.0 is normalised to +0.0 before its bits are taken
Key_NormalisedZero(f) ==
    <<0, 0>> \o ToBits(IF f.exp = 0 /\ f.mant = 0 THEN [f EXCEPT !.sign = 0] ELSE f)

\* ComparableF32::key: to_bits() as u64, the zero-extended bit pattern
\* (four 16-bit limbs, most significant first)
Key(f) == <<0, 0>> \o ToBits(f)

\* PartialEq for ComparableF32
KeyEq(a, b) == Key(a) = Key(b)

\* the key of FontMap.fonts
FontKey(name, size) == <<name, Key(size)>>

\* ------------------------------------------------------------- collaborators
\* draw::Font::new(fontref, size)
FontNew(fontref, size, born) ==
    [fontref |-> fontref, size |-> size, warm |-> {}, born |-> born]

\* draw::Font::add_str_to_cache(preload)
AddStrToCache(font, preload) == [font EXCEPT !.warm = @ \cup {preload}]

\* HashMap::insert
MapInsert(m, k, v) == [x \in DOMAIN m \cup {k} |-> IF x = k THEN v ELSE m[x]]

Empty == [x \in {} |-> x]

\* ------------------------------------------------------------------- Init
\* FontMap::new(): the three maps are empty, nothing has been called yet.
NewFontMap ==
    /\ fonts = Empty
    /\ font_paths = Empty
    /\ required_fonts = Empty
    /\ worker = "running"
    /\ returned = NoValue
    /\ caller = "idle"
    /\ op = "new"
    /\ ret = [status |-> "ok"]
    /\ loads = [n \in Names |-> <<>>]
    /\ finds = [n \in Names |-> 0]
    /\ queued = {}
    /\ overrides = Empty
    /\ joins = 0
    /\ nQueue = 0
    /\ nLoads = 0
    /\ dirty = FALSE

\* A FontMap used directly by the thread that made it (`worker` is that
\* thread); there is no MaybeFontMap.
Init ==
    /\ NewFontMap
    /\ mode = "direct"
    /\ handle = NoValue

\* The same, for the application that uses KeySizes.
InitKeys ==
    /\ NewFontMap
    /\ mode = "keys"
    /\ handle = NoValue

\* A FontMap made on a freshly spawned thread, behind MaybeFontMap::Waiting.
InitDeferred ==
    /\ NewFontMap
    /\ mode = "deferred"
    /\ handle = [tag |-> "Waiting"]

QueueBudget ==
    CASE mode = "deferred" -> MaxWorkerQueue
      [] mode = "keys" -> MaxKeyQueue
      [] OTHER -> MaxQueue
LoadBudget ==
    CASE mode = "deferred" -> MaxWorkerLoads
      [] mode = "keys" -> MaxKeyLoads
      [] OTHER -> MaxLoads

\* the arguments the application calls queue_font and get_font with
RequestsNow == IF mode = "keys" THEN KeyRequests ELSE Requests
SizesNow == IF mode = "keys" THEN KeySizes ELSE Sizes

\* The thread that may call the FontMap's methods now: the thread that made
\* it while it runs, the handle's thread once the handle is Ready.
OwnerIsWorker == worker = "running"
OwnerIsCaller == mode = "deferred" /\ handle.tag = "Ready" /\ caller = "idle"

FontMapValue == [fonts |-> fonts, font_paths |-> font_paths,
                 required_fonts |-> required_fonts]


\* How a call of a FontMap method ends: its outcome is recorded, and a panic
\* on the worker thread ends that thread.
EndCall(name, outcome) ==
    /\ op' = name
    /\ ret' = outcome
    /\ worker' = IF OwnerIsWorker /\ outcome.status = "panic"
                 THEN "panicked" ELSE worker
    /\ UNCHANGED <<returned, handleVars>>

Ok == [status |-> "ok"]
Panic(msg) == [status |-> "panic", msg |-> msg]

\* ------------------------------------------------------ FontMap::queue_font
\* QueuePush with a bug: a name that has a list gets a new list
QueuePush_Replace(req, font_name, size, preload) ==
    MapInsert(req, font_name, <<font_name, <<<<size, preload>>>>>>)

\* required_fonts after queue_font(font_name, size, preload)
QueuePush(req, font_name, size, preload) ==
    IF font_name \in DOMAIN req
    THEN [req EXCEPT ![font_name] = <<@[1], Append(@[2], <<size, preload>>)>>]
    ELSE MapInsert(req, font_name, <<font_name, <<<<size, preload>>>>>>)

queue_font(font_name, size, preload) ==
    /\ OwnerIsWorker
    /\ nQueue < QueueBudget
    /\ required_fonts' = QueuePush(required_fonts, font_name, size, preload)
    /\ queued' = queued \cup {<<font_name, Key(size), preload>>}
    /\ nQueue' = nQueue + 1
    /\ dirty' = TRUE
    /\ EndCall("queue_font", Ok)
    /\ UNCHANGED <<fonts, font_paths, loads, finds, overrides, nLoads>>

\* --------------------------------------------------- FontMap::add_font_path
\* PathInsert with a bug: a path already recorded for the name is kept
PathInsert_KeepFirst(paths, font_name, font_path) ==
    IF font_name \in DOMAIN paths THEN paths
    ELSE MapInsert(paths, font_name, font_path)

\* line 99: font_paths.insert(font_name, font_path)
PathInsert(paths, font_name, font_path) == MapInsert(paths, font_name, font_path)

add_font_path(font_name, font_path) ==
    /\ OwnerIsWorker
    /\ font_paths' = PathInsert(font_paths, font_name, font_path)
    /\ overrides' = MapInsert(overrides, font_name, font_path)
    /\ EndCall("add_font_path", Ok)
    /\ UNCHANGED <<fonts, required_fonts, loads, finds, queued, nQueue, nLoads, dirty>>

\* ------------------------------------------------------------- find_font
\* The system resolver's answer for a name: a path, or a panic (the name is
\* unknown to fontconfig, or the build has no fontconfig).  `sys` is the
\* resolver's answer per name during one load_fonts call.
find_font(sys, name) ==
    IF sys[name] = NoFont THEN Panic("find_font") ELSE [status |-> "ok", val |-> sys[name]]

\* ------------------------------------------------- FontLoader::from_path
\* File::open(path).expect(..) panics on a missing file; Font::try_from_vec
\* gives None for a file that is no font.  `id` is the identity of the
\* parsed font object this call allocates.
from_path(path, id) ==
    CASE FileAt(path) = "missing" -> Panic("Font file not found")
      [] FileAt(path) = "garbage" -> [status |-> "ok", val |-> NoValue]
      [] OTHER -> [status |-> "ok", val |-> [path |-> path, id |-> id]]

\* ------------------------------------------------------ FontMap::load_fonts
\* LoadEntry with a bug: an instance is constructed and inserted even when
\* the key is already in the cache
LoadEntry_AlwaysNew(fs, font_name, fontref, size, preload, born) ==
    MapInsert(fs, FontKey(font_name, size),
              AddStrToCache(FontNew(fontref, size, born), preload))

\* LoadEntry with a bug: an existing instance is left as it is
LoadEntry_SkipExisting(fs, font_name, fontref, size, preload, born) ==
    IF FontKey(font_name, size) \in DOMAIN fs
    THEN fs
    ELSE MapInsert(fs, FontKey(font_name, size),
                   AddStrToCache(FontNew(fontref, size, born), preload))

\* LoadEntry with a bug: the preload text replaces an existing instance's
\* warm-up instead of being added to it
LoadEntry_ResetWarm(fs, font_name, fontref, size, preload, born) ==
    IF FontKey(font_name, size) \in DOMAIN fs
    THEN [fs EXCEPT ![FontKey(font_name, size)] = [@ EXCEPT !.warm = {preload}]]
    ELSE MapInsert(fs, FontKey(font_name, size),
                   AddStrToCache(FontNew(fontref, size, born), preload))

\* LoadEntry with a bug: an existing instance is bound to the font parsed
\* by this call
LoadEntry_Rebind(fs, font_name, fontref, size, preload, born) ==
    IF FontKey(font_name, size) \in DOMAIN fs
    THEN [fs EXCEPT ![FontKey(font_name, size)] =
             AddStrToCache([@ EXCEPT !.fontref = fontref], preload)]
    ELSE MapInsert(fs, FontKey(font_name, size),
                   AddStrToCache(FontNew(fontref, size, born), preload))

\* lines 116-122: one (size, preload) requirement of font_name
LoadEntry(fs, font_name, fontref, size, preload, born) ==
    IF FontKey(font_name, size) \in DOMAIN fs
    THEN [fs EXCEPT ![FontKey(font_name, size)] = AddStrToCache(@, preload)]
    ELSE MapInsert(fs, FontKey(font_name, size),
                   AddStrToCache(FontNew(fontref, size, born), preload))

\* lines 115-123: the inner loop over v.1, from index i on
RECURSIVE LoadEntries(_, _, _, _, _, _)
LoadEntries(fs, font_name, fontref, list, i, born) ==
    IF i > Len(list) THEN fs
    ELSE LoadEntries(LoadEntry(fs, font_name, fontref, list[i][1], list[i][2], born),
                     font_name, fontref, list, i + 1, born)

\* LoadPath with a bug: the resolver's answer is used but not recorded
LoadPath_NoCache(st, font_name, sys) ==
    IF font_name \in DOMAIN st.font_paths
    THEN [st |-> st, path |-> st.font_paths[font_name]]
    ELSE LET s == find_font(sys, font_name)
             counted == [st EXCEPT !.finds[font_name] = @ + 1]
         IN  IF s.status = "panic"
             THEN [st |-> [counted EXCEPT !.outcome = s], path |-> ""]
             ELSE [st |-> counted, path |-> s.val]

\* lines 104-111: the path of font_name; st is the state of the call so far
LoadPath(st, font_name, sys) ==
    IF font_name \in DOMAIN st.font_paths
    THEN [st |-> st, path |-> st.font_paths[font_name]]
    ELSE LET s == find_font(sys, font_name)
             counted == [st EXCEPT !.finds[font_name] = @ + 1]
         IN  IF s.status = "panic"
             THEN [st |-> [counted EXCEPT !.outcome = s], path |-> ""]
             ELSE [st |-> [counted EXCEPT
                             !.font_paths = MapInsert(@, font_name, s.val)],
                   path |-> s.val]

\* LoadName with a bug: a file that is no font is skipped without a panic
LoadName_SkipUnparsable(st, font_name, v, sys, born) ==
    LET p == LoadPath(st, font_name, sys) IN
    IF p.st.outcome.status = "panic" THEN p.st
    ELSE LET id == <<font_name, Len(p.st.loads[font_name]) + 1>>
             f == from_path(p.path, id)
             logged == [p.st EXCEPT !.loads[font_name] = Append(@, p.path)]
         IN  IF f.status = "panic" THEN [logged EXCEPT !.outcome = f]
             ELSE IF f.val = NoValue
             THEN logged
             ELSE [logged EXCEPT
                     !.fonts = LoadEntries(@, font_name, f.val, v[2], 1, born)]

\* lines 104-123: one pass of the outer loop
LoadName(st, font_name, v, sys, born) ==
    LET p == LoadPath(st, font_name, sys) IN
    IF p.st.outcome.status = "panic" THEN p.st
    ELSE LET id == <<font_name, Len(p.st.loads[font_name]) + 1>>
             f == from_path(p.path, id)
             logged == [p.st EXCEPT !.loads[font_name] = Append(@, p.path)]
         IN  IF f.status = "panic" THEN [logged EXCEPT !.outcome = f]
             ELSE IF f.val = NoValue
             THEN [logged EXCEPT !.outcome = Panic("unable to load font")]
             ELSE [logged EXCEPT
                     !.fonts = LoadEntries(@, font_name, f.val, v[2], 1, born)]

\* lines 103-124: the outer loop, over the names in the order the HashMap
\* yields them; a panic ends the call where it happens
RECURSIVE LoadAll(_, _, _, _, _, _)
LoadAll(st, req, order, i, sys, born) ==
    IF i > Len(order) \/ st.outcome.status = "panic" THEN st
    ELSE LoadAll(LoadName(st, order[i], req[order[i]], sys, born),
                 req, order, i + 1, sys, born)

\* the orders in which a HashMap may yield the keys S
Orders(S) ==
    {o \in [1..Cardinality(S) -> S] : \A i, j \in 1..Cardinality(S) : o[i] = o[j] => i = j}

\* PendingAfterLoad with a bug: the requirements are consumed by the call
PendingAfterLoad_Drained(req) == Empty

\* line 103: required_fonts is iterated by reference (iter()), and nothing
\* in load_fonts removes from it
PendingAfterLoad(req) == req

load_fonts(order, sys) ==
    /\ OwnerIsWorker
    /\ nLoads < LoadBudget
    /\ LET st0 == [fonts |-> fonts, font_paths |-> font_paths, loads |-> loads,
                   finds |-> finds, outcome |-> Ok]
           st == LoadAll(st0, required_fonts, order, 1, sys, nLoads + 1)
       IN  /\ fonts' = st.fonts
           /\ font_paths' = st.font_paths
           /\ loads' = st.loads
           /\ finds' = st.finds
           /\ dirty' = IF st.outcome.status = "ok" THEN FALSE ELSE dirty
           /\ EndCall("load_fonts", st.outcome)
    /\ required_fonts' = PendingAfterLoad(required_fonts)
    /\ nLoads' = nLoads + 1
    /\ UNCHANGED <<queued, overrides, nQueue>>

\* -------------------------------------------------------- FontMap::get_font
\* GetFontResult with a bug: a name cached at another size answers with
\* that instance instead of a panic
GetFontResult_AnySize(fs, font_name, size) ==
    IF FontKey(font_name, size) \in DOMAIN fs
    THEN [status |-> "ok", val |-> fs[FontKey(font_name, size)]]
    ELSE IF \E k \in DOMAIN fs : k[1] = font_name
    THEN [status |-> "ok", val |-> fs[CHOOSE k \in DOMAIN fs : k[1] = font_name]]
    ELSE Panic("no font at specified size")

\* lines 128-130: the lookup and its expect
GetFontResult(fs, font_name, size) ==
    IF FontKey(font_name, size) \in DOMAIN fs
    THEN [status |-> "ok", val |-> fs[FontKey(font_name, size)]]
    ELSE Panic("no font at specified size")

\* the outcome is recorded with the arguments of the call
get_font(font_name, size) ==
    /\ OwnerIsCaller \/ OwnerIsWorker
    /\ EndCall("get_font",
               [call |-> <<font_name, size>>,
                res |-> GetFontResult(fonts, font_name, size),
                status |-> GetFontResult(fonts, font_name, size).status])
    /\ UNCHANGED <<fmVars, logVars>>

\* ------------------------------------------------------- the worker thread
\* The thread's closure returns its FontMap: the JoinHandle now holds it.
WorkerReturn ==
    /\ mode = "deferred"
    /\ worker = "running"
    /\ worker' = "done"
    /\ returned' = FontMapValue
    /\ UNCHANGED <<fmVars, logVars, handleVars, op, ret>>

\* ---------------------------------------------------- MaybeFontMap::unwrap
\* UnwrapResult with a bug: a handle that is not Ready yields an empty value
\* instead of a panic
UnwrapResult_Lenient(h) ==
    [status |-> "ok", val |-> IF h.tag = "Ready" THEN h.rc ELSE NoValue]

\* lines 142-145: the match on the handle
UnwrapResult(h) ==
    IF h.tag = "Ready"
    THEN [status |-> "ok", val |-> h.rc]
    ELSE Panic("fontmap not yet ready")

unwrap ==
    /\ mode = "deferred"
    /\ caller = "idle"
    /\ op' = "unwrap"
    /\ ret' = UnwrapResult(handle)
    /\ UNCHANGED <<fmVars, logVars, handleVars, worker, returned>>

\* --------------------------------------------------- MaybeFontMap::resolve
\* Join with a bug: the Err of a panicked thread is swallowed and an empty
\* FontMap is handed out
Join_EmptyOnErr ==
    [status |-> "ok",
     val |-> IF worker = "panicked"
             THEN [fonts |-> Empty, font_paths |-> Empty, required_fonts |-> Empty]
             ELSE returned]

\* JoinHandle::join: the thread's return value, or Err if it panicked
Join == IF worker = "panicked" THEN [status |-> "err"]
        ELSE [status |-> "ok", val |-> returned]

\* JoinReturns with a bug: the thread's result is taken without waiting
JoinReturns_NoWait == TRUE

\* Whether join can return now (it blocks while the thread runs)
JoinReturns == worker # "running"

\* ResolveTest with a bug: every handle that is not Ready is joined
ResolveTest_NotReady(h) == h.tag # "Ready"

\* line 149: the test that guards resolve's body
ResolveTest(h) == h.tag = "Waiting"

\* lines 149-150: the call up to the blocking join; a call on a handle that
\* is not Waiting returns at once
resolve_call ==
    /\ mode = "deferred"
    /\ caller = "idle"
    /\ IF ResolveTest(handle)
       THEN /\ handle' = [tag |-> "Invalid"]
            /\ caller' = "joining"
            /\ UNCHANGED <<op, ret>>
       ELSE /\ op' = "resolve"
            /\ ret' = Ok
            /\ UNCHANGED <<handle, caller>>
    /\ UNCHANGED <<fmVars, logVars, worker, returned, joins, mode>>

\* lines 151-156: join returns; unwrap() of its Err panics, and the handle
\* stays as mem::replace left it
resolve_join ==
    /\ caller = "joining"
    /\ JoinReturns
    /\ joins' = joins + 1
    /\ caller' = "idle"
    /\ op' = "resolve"
    /\ IF Join.status = "ok"
       THEN /\ handle' = [tag |-> "Ready", rc |-> Join.val]
            /\ ret' = Ok
       ELSE /\ ret' = Panic("join: worker panicked")
            /\ UNCHANGED handle
    /\ UNCHANGED <<fmVars, logVars, worker, returned, mode>>

\* ------------------------------------------------------------------- Next
\* the resolver's possible answers for the names load_fonts has no path for
SysAnswers == [DOMAIN required_fonts \ DOMAIN font_paths -> {SysPath, GarbagePath, NoFont}]

\* the calls of the thread that owns the FontMap
Next ==
    \/ \E r \in RequestsNow : queue_font(r[1], r[2], r[3])
    \/ \E n \in Names, p \in UserPaths : add_font_path(n, p)
    \/ \E o \in Orders(DOMAIN required_fonts), sys \in SysAnswers : load_fonts(o, sys)
    \/ \E n \in Names, s \in SizesNow : get_font(n, s)

Spec == Init /\ [][Next]_vars

SpecKeys == InitKeys /\ [][Next]_vars

\* the worker's calls, its return, and the calls on the handle
NextDeferred ==
    \/ Next
    \/ WorkerReturn
    \/ unwrap
    \/ resolve_call
    \/ resolve_join

SpecDeferred == InitDeferred /\ [][NextDeferred]_vars

\* JoinHandle::join returns once the thread has terminated.
SpecDeferredFair == SpecDeferred /\ WF_vars(resolve_join)

\* ======================================================================
\* Claims about the FontMap (checked under Spec)
\* ======================================================================
LoadCalled == nLoads' # nLoads
LoadCompleted == op = "load_fonts" /\ ret.status = "ok"
QueuedPairs == {<<q[1], q[2]>> : q \in queued}
QueuedTexts(k) == {q[3] : q \in {x \in queued : <<x[1], x[2]>> = k}}

\* C1: over any sequence of queue_font, add_font_path and load_fonts calls,
\* FontLoader::from_path is called at most once for a font name.
C1_LoadedAtMostOncePerName == \A n \in Names : Len(loads[n]) <= 1

\* C2: after every load_fonts call that completes, the keys of the cache are
\* exactly the (name, size bits) pairs ever queued; and a load_fonts call
\* keeps each existing entry's instance (same construction, same parsed
\* font), only adding warm-up text to it.
C2_OneEntryPerQueuedPair ==
    [][LoadCalled =>
         /\ ret'.status = "ok" => DOMAIN fonts' = QueuedPairs
         /\ \A k \in DOMAIN fonts :
              /\ k \in DOMAIN fonts'
              /\ fonts'[k].born = fonts[k].born
              /\ fonts'[k].fontref = fonts[k].fontref
              /\ fonts'[k].size = fonts[k].size
              /\ fonts[k].warm \subseteq fonts'[k].warm]_vars

\* a second load_fonts has completed over entries the first one made
C2_Witness ==
    /\ LoadCompleted
    /\ nLoads = 2
    /\ \E k \in DOMAIN fonts : fonts[k].born = 1
    /\ DOMAIN fonts = QueuedPairs

\* C9: after load_fonts completes, each queued (name, size) pair has one
\* entry, warmed with exactly the texts queued for that pair: all of them,
\* and none queued for another size or name.
C9_WarmUpIsUnionOfQueuedTexts ==
    LoadCompleted =>
        /\ DOMAIN fonts = QueuedPairs
        /\ \A k \in DOMAIN fonts : fonts[k].warm = QueuedTexts(k)

\* (Sans,12,Hello), (Sans,12,World), (Sans,24,Hello) queued and loaded
C9_Witness ==
    /\ LoadCompleted
    /\ DOMAIN fonts = {FontKey("Sans", F12), FontKey("Sans", F24)}
    /\ fonts[FontKey("Sans", F12)].warm = {"Hello", "World"}
    /\ fonts[FontKey("Sans", F24)].warm = {"Hello"}

\* C10: a load_fonts call removes no entry and shrinks no warm-up set, adds
\* entries only for queued pairs, and changes neither the key set nor any
\* warm-up set when no queue_font came since the last completed load_fonts.
C10_LoadFontsMonotoneIdempotent ==
    [][LoadCalled =>
         /\ DOMAIN fonts \subseteq DOMAIN fonts'
         /\ DOMAIN fonts' \subseteq QueuedPairs
         /\ \A k \in DOMAIN fonts : fonts[k].warm \subseteq fonts'[k].warm
         /\ ~dirty =>
              /\ DOMAIN fonts' = DOMAIN fonts
              /\ \A k \in DOMAIN fonts : fonts'[k].warm = fonts[k].warm]_vars

\* a second load_fonts, after a further queue_font, kept an entry of the
\* first and added one
C10_Witness ==
    /\ LoadCompleted
    /\ nLoads = 2
    /\ \E k1, k2 \in DOMAIN fonts : fonts[k1].born = 1 /\ fonts[k2].born = 2

\* a load_fonts called again with nothing queued in between has completed
C10_WitnessRepeat ==
    /\ LoadCompleted
    /\ nLoads = 2
    /\ fonts # Empty
    /\ \A k \in DOMAIN fonts : fonts[k].born = 1

\* C11: any two cache entries of one font name are constructed from the
\* same parsed font object.
C11_OneParsedFontPerName ==
    \A k1, k2 \in DOMAIN fonts :
        k1[1] = k2[1] => fonts[k1].fontref = fonts[k2].fontref

\* C12: a load_fonts call parses the file of a pending name that has an
\* add_font_path override from the path last set for it, without asking
\* find_font; find_font is asked only for pending names with no path.
PathStepOk(n) ==
    /\ finds'[n] # finds[n] => (n \in DOMAIN required_fonts /\ n \notin DOMAIN font_paths)
    /\ n \in DOMAIN overrides =>
         /\ finds'[n] = finds[n]
         /\ loads'[n] # loads[n] => loads'[n] = Append(loads[n], overrides[n])
         /\ (ret'.status = "ok" /\ n \in DOMAIN required_fonts) =>
              loads'[n] = Append(loads[n], overrides[n])

C12_OverrideBypassesResolver ==
    [][LoadCalled => \A n \in Names : PathStepOk(n)]_vars

\* load_fonts completed: Sans, with an override, was parsed from it without
\* the resolver; Mono, without one, went to the resolver
C12_Witness ==
    /\ LoadCompleted
    /\ "Sans" \in DOMAIN overrides
    /\ overrides["Sans"] = GoodPath
    /\ loads["Sans"] = <<GoodPath>>
    /\ finds["Sans"] = 0
    /\ finds["Mono"] = 1

\* C13: get_font returns the cached instance of exactly the key
\* (name, size bits) when the cache holds it and panics otherwise, also for
\* a pair queued but not loaded and for a name cached at other sizes only;
\* it changes neither the cache, the pending lists, the paths nor the logs
\* of parsed files.
GetFontCalled == op' = "get_font" /\ (op # "get_font" \/ ret' # ret)

C13_GetFontExactKeyOnly ==
    /\ [](op = "get_font" =>
            /\ ret.status = "ok" <=> FontKey(ret.call[1], ret.call[2]) \in DOMAIN fonts
            /\ ret.status = "ok" =>
                 ret.res.val = fonts[FontKey(ret.call[1], ret.call[2])]
            /\ ret.status = "ok" =>
                 /\ ret.res.val.size = ret.call[2]
                 /\ ret.res.val.fontref.id[1] = ret.call[1])
    /\ [][GetFontCalled =>
            /\ fonts' = fonts
            /\ required_fonts' = required_fonts
            /\ font_paths' = font_paths
            /\ loads' = loads
            /\ finds' = finds]_vars

\* get_font panicked for a size of a name that is cached at another size
C13_Witness ==
    /\ op = "get_font"
    /\ ret.status = "panic"
    /\ \E k \in DOMAIN fonts : k[1] = ret.call[1]

\* get_font panicked for a pair that is queued but not loaded
C13_WitnessQueued ==
    /\ op = "get_font"
    /\ ret.status = "panic"
    /\ FontKey(ret.call[1], ret.call[2]) \in QueuedPairs

\* get_font returned an instance
C13_WitnessHit ==
    /\ op = "get_font"
    /\ ret.status = "ok"

\* C14 (checked under SpecKeys): two sizes address the same cache slot
\* exactly when their bit patterns are identical.  Every queued size has,
\* after load_fonts, an entry constructed with identical bits; two entries
\* of a name never have identical bits; get_font hits exactly when an entry
\* of the name has the bits of the size asked for.
SameBits(a, b) == a.sign = b.sign /\ a.exp = b.exp /\ a.mant = b.mant

C14_SlotIffSameBits ==
    /\ \A a, b \in KeySizes : KeyEq(a, b) <=> SameBits(a, b)
    /\ \A k1, k2 \in DOMAIN fonts :
         (k1[1] = k2[1] /\ SameBits(fonts[k1].size, fonts[k2].size)) => k1 = k2
    /\ LoadCompleted =>
         \A n \in DOMAIN required_fonts :
           \A i \in 1..Len(required_fonts[n][2]) :
             \E k \in DOMAIN fonts :
               k[1] = n /\ SameBits(fonts[k].size, required_fonts[n][2][i][1])
    /\ op = "get_font" =>
         (ret.status = "ok" <=>
            \E k \in DOMAIN fonts :
              k[1] = ret.call[1] /\ SameBits(fonts[k].size, ret.call[2]))

\* +0.0 and -0.0 have an entry each, and get_font of -0.0 returned the
\* instance constructed with -0.0
C14_Witness ==
    /\ op = "get_font"
    /\ ret.status = "ok"
    /\ ret.call[2] = NegZero
    /\ ret.res.val.size = NegZero
    /\ FontKey("Mono", PosZero) \in DOMAIN fonts
    /\ FontKey("Mono", NegZero) \in DOMAIN fonts
    /\ FontKey("Mono", PosZero) # FontKey("Mono", NegZero)

\* the NaN is cached, and get_font of the NaN with the same bits hit it
C14_WitnessNaN ==
    /\ op = "get_font"
    /\ ret.status = "ok"
    /\ ret.call[2] = QNaN

\* 12.0 is cached, and get_font of 11.999999 panicked
C14_WitnessClose ==
    /\ op = "get_font"
    /\ ret.status = "panic"
    /\ ret.call = <<"Mono", F12Below>>
    /\ FontKey("Mono", F12) \in DOMAIN fonts

\* C16: a queue_font call appends one (size, preload) entry at the end of
\* one name's pending list (a new list if the name had none), keeps that
\* list's earlier entries in order, and leaves the other names' lists, the
\* paths, the cache and the logs of parsed files and resolver calls as they
\* were.
QueueCalled == nQueue' # nQueue
PendingList(req, n) == IF n \in DOMAIN req THEN req[n][2] ELSE <<>>

C16_QueueFontAppendsOne ==
    [][QueueCalled =>
         /\ \E n \in Names :
              /\ DOMAIN required_fonts' = DOMAIN required_fonts \cup {n}
              /\ required_fonts'[n][1] = n
              /\ Len(PendingList(required_fonts', n)) = Len(PendingList(required_fonts, n)) + 1
              /\ SubSeq(PendingList(required_fonts', n), 1, Len(PendingList(required_fonts, n)))
                   = PendingList(required_fonts, n)
              /\ LET last == PendingList(required_fonts', n)[Len(PendingList(required_fonts', n))]
                 IN  queued' = queued \cup {<<n, Key(last[1]), last[2]>>}
              /\ \A m \in DOMAIN required_fonts \ {n} : required_fonts'[m] = required_fonts[m]
         /\ fonts' = fonts
         /\ font_paths' = font_paths
         /\ loads' = loads
         /\ finds' = finds]_vars

\* a third requirement was appended to a name's list after a load_fonts
C16_Witness ==
    /\ op = "queue_font"
    /\ nLoads >= 1
    /\ \E n \in DOMAIN required_fonts : Len(required_fonts[n][2]) = 3

\* C17: a load_fonts call panics whenever a pending name's recorded path
\* names a missing file or a file that is no font, or the resolver, asked
\* for a pending name without a path, fails or answers with such a path;
\* the cache entries of such a name are left as they were.
FailsAt(n) ==
    /\ n \in DOMAIN required_fonts
    /\ IF n \in DOMAIN font_paths' THEN FileAt(font_paths'[n]) # "font"
       ELSE finds'[n] > finds[n]

C17_LoadFontsFatalOnBadFont ==
    [][LoadCalled =>
         \A n \in Names :
            FailsAt(n) =>
               /\ ret'.status = "panic"
               /\ \A k \in DOMAIN fonts' :
                    k[1] = n => (k \in DOMAIN fonts /\ fonts'[k] = fonts[k])]_vars

\* load_fonts panicked on a file that is no font, after it had made the
\* entries of another name; the failing name has no entry
C17_Witness ==
    /\ op = "load_fonts"
    /\ ret.status = "panic"
    /\ ret.msg = "unable to load font"
    /\ \E k \in DOMAIN fonts : fonts[k].born = nLoads
    /\ \E n \in DOMAIN required_fonts :
         /\ FileAt(font_paths[n]) = "garbage"
         /\ \A k \in DOMAIN fonts : k[1] # n

\* load_fonts panicked on a missing file
C17_WitnessMissing ==
    /\ op = "load_fonts"
    /\ ret.status = "panic"
    /\ ret.msg = "Font file not found"

\* load_fonts panicked in the resolver
C17_WitnessResolver ==
    /\ op = "load_fonts"
    /\ ret.status = "panic"
    /\ ret.msg = "find_font"

\* C18: the path given to add_font_path is the one the paths map holds for
\* the name, also after load_fonts has made instances of it, and no step
\* removes a cache entry or changes the parsed font an entry is bound to.
C18_LatePathNotRetroactive ==
    /\ [](\A n \in DOMAIN overrides :
            n \in DOMAIN font_paths /\ font_paths[n] = overrides[n])
    /\ [][\A k \in DOMAIN fonts :
            /\ k \in DOMAIN fonts'
            /\ fonts'[k].fontref = fonts[k].fontref]_vars

\* a second load_fonts completed after add_font_path gave a name another
\* path: the name was parsed again, from the new path, and an instance made
\* by the first call is still bound to the font parsed from the old path
C18_Witness ==
    /\ LoadCompleted
    /\ nLoads = 2
    /\ \E k \in DOMAIN fonts :
         /\ k[1] \in DOMAIN overrides
         /\ fonts[k].born = 1
         /\ Len(loads[k[1]]) = 2
         /\ loads[k[1]][2] = font_paths[k[1]]
         /\ fonts[k].fontref.path # font_paths[k[1]]

\* C19: find_font is asked at most once per name; a load_fonts call keeps
\* every paths entry it finds, asks the resolver only for a name without
\* one, records the answer and parses from it, and parses a name that has
\* an entry from that entry.
C19_ResolverAtMostOncePerName ==
    /\ [](\A n \in Names : finds[n] <= 1)
    /\ [][LoadCalled =>
            \A n \in Names :
               /\ n \in DOMAIN font_paths =>
                    /\ n \in DOMAIN font_paths'
                    /\ font_paths'[n] = font_paths[n]
                    /\ finds'[n] = finds[n]
                    /\ loads'[n] # loads[n] => loads'[n] = Append(loads[n], font_paths[n])
               /\ n \in DOMAIN font_paths' \ DOMAIN font_paths =>
                    /\ finds'[n] = finds[n] + 1
                    /\ loads'[n] = Append(loads[n], font_paths'[n])
               /\ finds'[n] # finds[n] =>
                    /\ finds'[n] = finds[n] + 1
                    /\ \/ n \in DOMAIN font_paths'
                       \/ ret'.status = "panic" /\ ret'.msg = "find_font"]_vars

\* a name without an override went through two completed load_fonts calls:
\* the resolver was asked once, and both calls parsed the path it gave
C19_Witness ==
    /\ LoadCompleted
    /\ nLoads = 2
    /\ \E n \in DOMAIN required_fonts \ DOMAIN overrides :
         /\ finds[n] = 1
         /\ loads[n] = <<font_paths[n], font_paths[n]>>

\* C20: a load_fonts call leaves required_fonts as it was, and a call that
\* completes has parsed the file of every pending name and holds, for every
\* pending requirement, an entry warmed with its text, whether or not the
\* requirement was there at an earlier call.
C20_LoadFontsKeepsPending ==
    [][LoadCalled =>
         /\ required_fonts' = required_fonts
         /\ ret'.status = "ok" =>
              \A n \in DOMAIN required_fonts :
                 /\ Len(loads'[n]) = Len(loads[n]) + 1
                 /\ \A i \in 1..Len(required_fonts[n][2]) :
                      /\ FontKey(n, required_fonts[n][2][i][1]) \in DOMAIN fonts'
                      /\ required_fonts[n][2][i][2] \in
                           fonts'[FontKey(n, required_fonts[n][2][i][1])].warm]_vars

\* the second load_fonts completed: every pending name was parsed twice,
\* though a requirement was queued between the calls for one name only
C20_Witness ==
    /\ LoadCompleted
    /\ nLoads = 2
    /\ nQueue = 3
    /\ Cardinality(DOMAIN required_fonts) = 2
    /\ \A n \in DOMAIN required_fonts : Len(loads[n]) = 2
    /\ \E k \in DOMAIN fonts : fonts[k].born = 2

\* ======================================================================
\* Claims about the MaybeFontMap (checked under SpecDeferred)
\* ======================================================================
ResolveReturned == op = "resolve" /\ ret.status = "ok" /\ caller = "idle"

\* C3: however often resolve is called on a handle created Waiting, the
\* worker is joined exactly once: once a resolve call has returned, the
\* handle is Ready and exactly one join has been made.
C3_ResolveJoinsOnceAndEndsReady ==
    /\ joins <= 1
    /\ ResolveReturned => (handle.tag = "Ready" /\ joins = 1)

\* C4: between calls, the handle is Waiting or Ready, never Invalid, also
\* after a resolve call whose join failed.
C4_InvalidNeverObservable ==
    caller = "idle" => handle.tag \in {"Waiting", "Ready"}

\* C5: if the worker's load failed, the handle never becomes Ready, the
\* resolve call that joins the worker ends in a panic, and every unwrap
\* ends in a panic: no call hands out a FontMap.
C5_FailedWorkerIsFatal ==
    /\ [](worker = "panicked" =>
            /\ handle.tag # "Ready"
            /\ op = "unwrap" => ret.status = "panic")
    /\ [][(worker = "panicked" /\ joins' # joins) =>
            (op' = "resolve" /\ ret'.status = "panic")]_vars

\* unwrap was called after the resolve that joined a panicked worker
C5_Witness ==
    /\ worker = "panicked"
    /\ joins = 1
    /\ op = "unwrap"

\* C6: when unwrap returns a FontMap, the worker has terminated, and the
\* FontMap is the value the worker returned, with all its writes.
C6_UnwrapAfterWorkerDone ==
    (op = "unwrap" /\ ret.status = "ok") =>
        /\ worker = "done"
        /\ ret.val = returned
        /\ ret.val = FontMapValue

\* unwrap returned a FontMap that holds a loaded instance
C6_Witness ==
    /\ op = "unwrap"
    /\ ret.status = "ok"
    /\ fonts # Empty

\* C7: unwrap panics when the handle is not Ready (Waiting or Invalid),
\* returns the handle's FontMap when it is Ready, and leaves the handle as
\* it is.
C7_UnwrapReadyOnly ==
    /\ [](op = "unwrap" =>
            /\ ret.status = "ok" <=> handle.tag = "Ready"
            /\ ret.status = "ok" => ret.val = handle.rc)
    /\ [][(op' = "unwrap" /\ op # "unwrap") =>
            /\ handle' = handle
            /\ caller' = caller
            /\ joins' = joins
            /\ handle.tag = "Ready" => ret' = [status |-> "ok", val |-> handle.rc]
            /\ handle.tag # "Ready" => ret'.status = "panic"]_vars

\* unwrap was called before resolve although the worker was done
C7_Witness ==
    /\ op = "unwrap"
    /\ ret.status = "panic"
    /\ handle.tag = "Waiting"
    /\ worker = "done"

\* unwrap was called on an Invalid handle
C7_WitnessInvalid ==
    /\ op = "unwrap"
    /\ ret.status = "panic"
    /\ handle.tag = "Invalid"
    /\ caller = "idle"

\* C8: a resolve call made while the handle is Invalid ends in a panic.
C8_ResolveOnInvalidIsFatal ==
    (op = "resolve" /\ caller = "idle" /\ handle.tag = "Invalid") =>
        ret.status = "panic"

\* C15 (checked under SpecDeferredFair): once the worker has returned
\* normally, a resolve call that is waiting for it returns with the handle
\* Ready; a call on the handle waits only inside the first resolve (entered
\* from Waiting, before any join), and never again after a join.
C15_FirstResolveReturnsReady ==
    /\ (caller = "joining" /\ worker = "done") ~> (caller = "idle" /\ handle.tag = "Ready")
    /\ [](joins >= 1 => caller = "idle")
    /\ [][(caller' = "joining" /\ caller = "idle") =>
            (handle.tag = "Waiting" /\ joins = 0)]_vars

\* resolve returned with the handle Ready over a FontMap with instances
C15_Witness ==
    /\ op = "resolve"
    /\ ret.status = "ok"
    /\ handle.tag = "Ready"
    /\ joins = 1
    /\ fonts # Empty

====
